---------------------------- MODULE Spec2Model ----------------------------
(***************************************************************************)
(* Gossip production of the neighborhood (gossip_producer.rs).             *)
(*                                                                         *)
(* The state is one NeighborhoodDatabase snapshot, the outcome of the last *)
(* call of GossipProducerReal::produce on it, and the locals of the calls  *)
(* that overlap on it.  Keys are the numbers 1..n; a NodeRecord is         *)
(* [is_bootstrap, neighbors] with neighbors the record's Vec<Key> in push  *)
(* order.                                                                  *)
(***************************************************************************)
EXTENDS Integers, Sequences, FiniteSets, TLC

VARIABLES database, call, workers

vars == <<database, call, workers>>

(***************************************************************************)
(* Bounds of the model.                                                    *)
(***************************************************************************)
\* largest number of NodeRecords in a database
MaxNodes == 5
\* databases of at most this many nodes are enumerated with every neighbor list
SmallNodes == 2
\* largest number of NodeRecords in a database that overlapping calls read
ParallelNodes == 3

\* gossip_producer.rs:9
MINIMUM_NEIGHBORS == 3

\* a key no database of the model holds (the target of the should_panic test)
AbsentKey == 0

Min(a, b) == IF a < b THEN a ELSE b

Range(s) == {s[i] : i \in DOMAIN s}

Contains(s, k) == \E i \in DOMAIN s : s[i] = k

(***************************************************************************)
(* The read-only query surface of NeighborhoodDatabase and NodeRecord that *)
(* the producer calls.                                                     *)
(***************************************************************************)
\* database.node_by_key(key).is_some()
known(db, key) == key \in DOMAIN db.by_public_key

\* database.node_by_key(key) unwrapped
node_by_key(db, key) == db.by_public_key[key]

\* database.root()
root(db) == db.by_public_key[db.this_node]

\* node.neighbors()
neighbors(node) == node.neighbors

\* node.is_bootstrap_node()
is_bootstrap_node(node) == node.is_bootstrap

\* node.has_neighbor(key)
has_neighbor(node, key) == Contains(node.neighbors, key)

RECURSIVE Ascending(_)
Ascending(S) ==
    IF S = {} THEN << >>
    ELSE LET least == CHOOSE k \in S : \A j \in S : k <= j
         IN <<least>> \o Ascending(S \ {least})

Reverse(s) == [i \in DOMAIN s |-> s[Len(s) + 1 - i]]

\* database.keys(): the key set, enumerated in an order the database does
\* not promise; the model draws the order from two
keys(db) ==
    {Ascending(DOMAIN db.by_public_key), Reverse(Ascending(DOMAIN db.by_public_key))}

(***************************************************************************)
(* GossipBuilder: entries in insertion order, edges by 0-based position.   *)
(* calls keeps the calls made on the builder, in the order they were made. *)
(***************************************************************************)
GossipBuilder_new ==
    [node_records |-> << >>, neighbor_pairs |-> << >>, calls |-> << >>]

\* so_far.node(node_record_ref, reveal_node_addr)
builder_node(so_far, key, node, reveal_node_addr) ==
    [so_far EXCEPT !.node_records =
        Append(@, [public_key |-> key,
                   is_bootstrap |-> node.is_bootstrap,
                   neighbors |-> node.neighbors,
                   revealed |-> reveal_node_addr]),
                    !.calls = Append(@, <<"node", key>>)]

\* the 0-based position of key among the entries added so far
index_of(node_records, key) ==
    (CHOOSE i \in DOMAIN node_records : node_records[i].public_key = key) - 1

\* so_far.neighbor_pair(from_key, to_key)
builder_neighbor_pair(so_far, from_key, to_key) ==
    [so_far EXCEPT !.neighbor_pairs =
        Append(@, [from |-> index_of(so_far.node_records, from_key),
                   to |-> index_of(so_far.node_records, to_key)]),
                    !.calls = Append(@, <<"neighbor_pair", from_key, to_key>>)]

\* so_far.build(): the Gossip of the entries and edges added so far
builder_build(so_far) == [so_far EXCEPT !.calls = Append(@, <<"build">>)]


(***************************************************************************)
(* GossipProducerReal::choose_introductions (lines 65-90).  The result is  *)
(* [panic, keys]: panic names the panic the call ends in ("none" when it   *)
(* returns), keys is the returned Vec<&Key>.                               *)
(***************************************************************************)
\* faulty variant: the candidates stay in root's push order
sort_by_nothing(db, s) == s

\* faulty variant: an unstable sort that puts a candidate before the earlier
\* candidates of the same count
RECURSIVE sort_by_neighbor_count_unstable(_, _)
sort_by_neighbor_count_unstable(db, s) ==
    IF s = << >> THEN << >>
    ELSE LET front == sort_by_neighbor_count_unstable(db, SubSeq(s, 1, Len(s) - 1))
             last == s[Len(s)]
             count(k) == Len(neighbors(node_by_key(db, k)))
             p == Cardinality({i \in DOMAIN front : count(front[i]) < count(last)})
         IN SubSeq(front, 1, p) \o <<last>> \o SubSeq(front, p + 1, Len(front))

\* possible_introducees.sort_by(|l, r| neighbors(l).len().cmp(&neighbors(r).len())):
\* slice::sort_by is stable, so equal counts keep their order
RECURSIVE sort_by_neighbor_count(_, _)
sort_by_neighbor_count(db, s) ==
    IF s = << >> THEN << >>
    ELSE LET front == sort_by_neighbor_count(db, SubSeq(s, 1, Len(s) - 1))
             last == s[Len(s)]
             count(k) == Len(neighbors(node_by_key(db, k)))
             p == Cardinality({i \in DOMAIN front : count(front[i]) <= count(last)})
         IN SubSeq(front, 1, p) \o <<last>> \o SubSeq(front, p + 1, Len(front))

\* faulty variant: every candidate is taken
take_all(s, n) == s

\* into_iter().take(n).collect()
take(s, n) == SubSeq(s, 1, Min(n, Len(s)))

\* faulty variant: every neighbor of the target is counted
target_all_neighbors(db, target) == Len(neighbors(target))

\* lines 66-71: the target's neighbors that are not bootstrap nodes
target_standard_neighbors(db, target) ==
    Cardinality({i \in DOMAIN neighbors(target) :
                    ~is_bootstrap_node(node_by_key(db, neighbors(target)[i]))})

\* faulty variant: a bootstrap target is introduced too
wants_introductions_for_any_class(db, target_key, target) ==
    /\ Contains(neighbors(root(db)), target_key)
    /\ target_standard_neighbors(db, target) < MINIMUM_NEIGHBORS

\* faulty variant: the count of the target's standard neighbors is not tested
wants_introductions_at_any_count(db, target_key, target) ==
    /\ ~is_bootstrap_node(target)
    /\ Contains(neighbors(root(db)), target_key)

\* line 73
wants_introductions(db, target_key, target) ==
    /\ ~is_bootstrap_node(target)
    /\ Contains(neighbors(root(db)), target_key)
    /\ target_standard_neighbors(db, target) < MINIMUM_NEIGHBORS

\* faulty variant: the target itself is not filtered out (line 77 missing)
passes_key_filters_target_too(target_key, target, key) ==
    ~Contains(neighbors(target), key)

\* lines 76-77: the first two filters over root's neighbors
passes_key_filters(target_key, target, key) ==
    /\ ~Contains(neighbors(target), key)
    /\ target_key # key

\* faulty variant: the bootstrap filter of line 78 is missing
possible_introducees_of_any_class(db, target_key, target) ==
    LET eligible(key) == passes_key_filters(target_key, target, key)
    IN SelectSeq(neighbors(root(db)), eligible)

\* lines 74-79
possible_introducees(db, target_key, target) ==
    LET eligible(key) ==
            /\ passes_key_filters(target_key, target, key)
            /\ ~is_bootstrap_node(node_by_key(db, key))
    IN SelectSeq(neighbors(root(db)), eligible)

choose_introductions(db, target_key, target) ==
    IF \E i \in DOMAIN neighbors(target) : ~known(db, neighbors(target)[i])
    THEN \* line 69: unimplemented!()
         [panic |-> "unimplemented", keys |-> << >>]
    ELSE IF wants_introductions(db, target_key, target)
    THEN IF \E i \in DOMAIN neighbors(root(db)) :
                /\ passes_key_filters(target_key, target, neighbors(root(db))[i])
                /\ ~known(db, neighbors(root(db))[i])
         THEN \* line 78: expect("Key magically disappeared")
              [panic |-> "Key magically disappeared", keys |-> << >>]
         ELSE IF target_standard_neighbors(db, target) > MINIMUM_NEIGHBORS
         THEN \* line 86: the usize subtraction below zero (overflow checks on)
              [panic |-> "attempt to subtract with overflow", keys |-> << >>]
         ELSE [panic |-> "none",
               keys |-> take(sort_by_neighbor_count(db,
                                 possible_introducees(db, target_key, target)),
                             MINIMUM_NEIGHBORS - target_standard_neighbors(db, target))]
    ELSE [panic |-> "none", keys |-> << >>]

(***************************************************************************)
(* GossipProducerReal::produce (lines 32-57).  node_order enumerates        *)
(* database.keys() in the first fold and pair_order in the second.  The   *)
(* result is [outcome, introducees, gossip].                               *)
(***************************************************************************)
\* faulty variant: the rule forgets the target's own neighbors (line 44)
reveal_node_addr_one_direction(db, target_key, introducees, key) ==
    \/ has_neighbor(node_by_key(db, key), target_key)
    \/ Contains(introducees, key)

\* faulty variant: the rule forgets the introducees (line 45)
reveal_node_addr_edges_only(db, target_key, introducees, key) ==
    \/ has_neighbor(node_by_key(db, key), target_key)
    \/ has_neighbor(node_by_key(db, target_key), key)

\* lines 42-45
reveal_node_addr(db, target_key, introducees, key) ==
    \/ has_neighbor(node_by_key(db, key), target_key)
    \/ has_neighbor(node_by_key(db, target_key), key)
    \/ Contains(introducees, key)

\* faulty variant: the first fold adds the target's entry twice
add_node_target_twice(db, target_key, introducees, so_far, key_ref) ==
    LET once == builder_node(so_far, key_ref, node_by_key(db, key_ref),
                             reveal_node_addr(db, target_key, introducees, key_ref))
    IN IF key_ref = target_key
       THEN builder_node(once, key_ref, node_by_key(db, key_ref), FALSE)
       ELSE once

\* faulty variant: the entry the fold adds first is revealed whatever its key
add_node_first_revealed(db, target_key, introducees, so_far, key_ref) ==
    builder_node(so_far, key_ref, node_by_key(db, key_ref),
                 \/ so_far.node_records = << >>
                 \/ reveal_node_addr(db, target_key, introducees, key_ref))

\* faulty variant: the first fold adds a node's edge to itself at once with
\* the node's entry
add_node_with_own_pair(db, target_key, introducees, so_far, key_ref) ==
    LET added == builder_node(so_far, key_ref, node_by_key(db, key_ref),
                              reveal_node_addr(db, target_key, introducees, key_ref))
    IN IF has_neighbor(node_by_key(db, key_ref), key_ref)
       THEN builder_neighbor_pair(added, key_ref, key_ref)
       ELSE added

\* lines 40-47: the closure of the first fold, adding the entry of key_ref
add_node(db, target_key, introducees, so_far, key_ref) ==
    builder_node(so_far, key_ref, node_by_key(db, key_ref),
                 reveal_node_addr(db, target_key, introducees, key_ref))

\* lines 39-47: the fold that adds one entry per key
RECURSIVE fold_nodes(_, _, _, _, _)
fold_nodes(db, target_key, introducees, order, so_far) ==
    IF order = << >> THEN so_far
    ELSE fold_nodes(db, target_key, introducees, Tail(order),
                    add_node(db, target_key, introducees, so_far, Head(order)))

\* lines 48-49: every (key, neighbor) in enumeration order
RECURSIVE neighbor_refs(_, _)
neighbor_refs(db, order) ==
    IF order = << >> THEN << >>
    ELSE [i \in DOMAIN neighbors(node_by_key(db, Head(order))) |->
              <<Head(order), neighbors(node_by_key(db, Head(order)))[i]>>]
         \o neighbor_refs(db, Tail(order))

\* faulty variant: the filter tests the node the edge leaves
keeps_neighbor_by_source(db, ref) == ~is_bootstrap_node(node_by_key(db, ref[1]))

\* faulty variant: the filter also drops the edges that leave a bootstrap node
keeps_neighbor_standard_only(db, ref) ==
    /\ ~is_bootstrap_node(node_by_key(db, ref[2]))
    /\ ~is_bootstrap_node(node_by_key(db, ref[1]))

\* line 50: the filter that drops neighbors that are bootstrap nodes
keeps_neighbor(db, ref) == ~is_bootstrap_node(node_by_key(db, ref[2]))

\* lines 51-53: the inner fold
RECURSIVE fold_pairs(_, _)
fold_pairs(refs, so_far) ==
    IF refs = << >> THEN so_far
    ELSE fold_pairs(Tail(refs),
                    builder_neighbor_pair(so_far, Head(refs)[1], Head(refs)[2]))

NoGossip == GossipBuilder_new

\* faulty variant: the missing target is answered with an empty Gossip
target_not_found_empty_gossip ==
    [outcome |-> "Gossip", introducees |-> << >>, gossip |-> NoGossip]

\* faulty variant: the missing target panics with the message of the other
\* lookups
target_not_found_as_disappeared ==
    [outcome |-> "Key magically disappeared", introducees |-> << >>,
     gossip |-> NoGossip]

\* line 35: panic!("Target node {:?} not in NeighborhoodDatabase"): the call
\* ends in the failure the specification names TargetNotFound, with no Gossip
target_not_found ==
    [outcome |-> "TargetNotFound", introducees |-> << >>, gossip |-> NoGossip]

\* line 50: expect("Key magically disappeared") on a neighbor key that has no
\* NodeRecord: the failure the specification names DanglingNeighborReference
key_disappeared ==
    [outcome |-> "Key magically disappeared", introducees |-> << >>,
     gossip |-> NoGossip]

produce(db, target_key, node_order, pair_order) ==
    IF ~known(db, target_key)
    THEN target_not_found
    ELSE LET chosen == choose_introductions(db, target_key, node_by_key(db, target_key))
             refs == neighbor_refs(db, pair_order)
             keep(ref) == keeps_neighbor(db, ref)
         IN IF chosen.panic # "none"
            THEN [outcome |-> chosen.panic, introducees |-> << >>, gossip |-> NoGossip]
            ELSE IF \E i \in DOMAIN refs : ~known(db, refs[i][2])
            THEN key_disappeared
            ELSE [outcome |-> "Gossip",
                  introducees |-> chosen.keys,
                  gossip |-> builder_build(
                                 fold_pairs(SelectSeq(refs, keep),
                                     fold_nodes(db, target_key, chosen.keys,
                                                node_order, GossipBuilder_new)))]

(***************************************************************************)
(* The databases of the model.  this_node is key 1.  Every neighbor key is *)
(* a key of the database: add_neighbor refuses a key that has no           *)
(* NodeRecord yet (gossip_producer.rs:556-557).                            *)
(***************************************************************************)
\* every push order of the keys in S
RECURSIVE PushOrders(_)
PushOrders(S) ==
    IF S = {} THEN {<< >>}
    ELSE UNION {{<<k>> \o p : p \in PushOrders(S \ {k})} : k \in S}

NodeRecord(bootstrap, neighbor_keys) ==
    [is_bootstrap |-> bootstrap, neighbors |-> neighbor_keys]

Database(records) == [this_node |-> 1, by_public_key |-> records]

\* every database of n nodes: any flags, any neighbor set per node (self
\* included), root's neighbors in any push order
SmallDatabase(n) ==
    \E flags \in [1..n -> BOOLEAN],
       first \in UNION {PushOrders(T) : T \in SUBSET (1..n)},
       lists \in [2..n -> SUBSET (1..n)] :
       database = Database([k \in 1..n |->
           NodeRecord(flags[k], IF k = 1 THEN first ELSE Ascending(lists[k]))])

\* the neighbor lists a node other than root and node 2 has in a larger
\* database: one list for the odd keys and one for the even keys
OddNeighbors(n) == {<< >>, <<2>>, <<n, 1>>}

EvenNeighbors == {<< >>, <<2>>}

\* larger databases: root's neighbors are the first nodes after it, pushed in
\* ascending order, or all the other nodes in descending order; node 2 has any
\* neighbor set; the bootstrap nodes are the last ones, and possibly root
StarDatabase(n) ==
    \E root_flag \in BOOLEAN,
       last_flags \in 0..(n - 1),
       first \in {Ascending(2..m) : m \in 1..n} \cup {Reverse(Ascending(2..n))},
       second \in SUBSET ((1..n) \ {2}),
       odd \in OddNeighbors(n),
       even \in EvenNeighbors :
       database = Database([k \in 1..n |->
           NodeRecord((k = 1 /\ root_flag) \/ k > n - last_flags,
                      IF k = 1 THEN first
                      ELSE IF k = 2 THEN Ascending(second)
                      ELSE IF k % 2 = 1 THEN odd ELSE even)])

\* the keys produce is called with: every key of the database, and an absent one
Targets(db) == DOMAIN db.by_public_key \cup {AbsentKey}

Idle == [target |-> AbsentKey, outcome |-> "idle", introducees |-> << >>,
         gossip |-> NoGossip]

\* the callers that may hold the one producer (&self) at a time
Callers == {"first", "second"}

\* a caller that has not called produce
Waiting == [target |-> AbsentKey, stage |-> "waiting", outcome |-> "idle",
            introducees |-> << >>, gossip |-> NoGossip]

Init ==
    /\ \E n \in 1..MaxNodes :
          IF n <= SmallNodes THEN SmallDatabase(n) ELSE StarDatabase(n)
    /\ call = Idle
    /\ workers = [p \in Callers |-> Waiting]

\* faulty variant: the call records the target among root's neighbors
Produce_adding_neighbor(target_key, node_order) ==
    /\ call.outcome = "idle"
    /\ call' = [target |-> target_key] @@
               produce(database, target_key, node_order,
                       Ascending(DOMAIN database.by_public_key))
    /\ database' =
          IF known(database, target_key)
             /\ ~Contains(neighbors(root(database)), target_key)
          THEN [database EXCEPT !.by_public_key[database.this_node].neighbors =
                                    Append(@, target_key)]
          ELSE database
    /\ UNCHANGED workers

\* one call subject.produce(&database, target): the first fold enumerates
\* database.keys() in node_order, the second in ascending order
Produce(target_key, node_order) ==
    /\ call.outcome = "idle"
    /\ call' = [target |-> target_key] @@
               produce(database, target_key, node_order,
                       Ascending(DOMAIN database.by_public_key))
    /\ UNCHANGED <<database, workers>>

\* the caller takes the outcome; the producer keeps nothing of it
Return ==
    /\ call.outcome # "idle"
    /\ call' = Idle
    /\ UNCHANGED <<database, workers>>

Next ==
    \/ \E target_key \in Targets(database), node_order \in keys(database) :
          Produce(target_key, node_order)
    \/ Return

Spec == Init /\ [][Next]_vars

(***************************************************************************)
(* Databases that know an edge before they know its far node: a neighbor   *)
(* list may hold the key n + 1, which has no NodeRecord.                   *)
(***************************************************************************)
PartialDatabase(n) ==
    \E flags \in [1..n -> BOOLEAN],
       lists \in [1..n -> SUBSET (1..(n + 1))] :
       database = Database([k \in 1..n |->
           NodeRecord(flags[k], Ascending(lists[k]))])

InitPartial ==
    /\ \E n \in 1..SmallNodes : PartialDatabase(n)
    /\ call = Idle
    /\ workers = [p \in Callers |-> Waiting]

SpecPartial == InitPartial /\ [][Next]_vars

(***************************************************************************)
(* Calls of produce that overlap: each caller runs the steps of produce on *)
(* the shared database and producer, and the steps of the callers          *)
(* interleave.  A caller's record holds the locals of its call.            *)
(***************************************************************************)
\* faulty variant: the introducees are kept in the producer, where the other
\* call has put its own
captured_introducees_shared(ws, p) ==
    LET others == {q \in DOMAIN ws \ {p} : ws[q].stage \in {"chosen", "nodes_added"}}
    IN IF others = {} THEN ws[p].introducees
       ELSE ws[CHOOSE q \in others : TRUE].introducees

\* line 38: `let introducees`, the local the closure of the first fold captures
captured_introducees(ws, p) == ws[p].introducees

\* lines 33-38: the lookup of the target and choose_introductions
Begin(p, target_key) ==
    /\ workers[p].stage = "waiting"
    /\ \A q \in Callers \ {p} :
          workers[q].stage = "waiting" \/ workers[q].target # target_key
    /\ workers' = [workers EXCEPT ![p] =
          IF ~known(database, target_key)
          THEN [target |-> target_key, stage |-> "done"] @@ target_not_found
          ELSE LET chosen == choose_introductions(database, target_key,
                                 node_by_key(database, target_key))
               IN IF chosen.panic # "none"
                  THEN [target |-> target_key, stage |-> "done",
                        outcome |-> chosen.panic, introducees |-> << >>,
                        gossip |-> NoGossip]
                  ELSE [target |-> target_key, stage |-> "chosen",
                        outcome |-> "running", introducees |-> chosen.keys,
                        gossip |-> GossipBuilder_new]]
    /\ UNCHANGED <<database, call>>

\* lines 39-47: the first fold.  The database does not change, so keys()
\* enumerates alike for every caller and in both folds: in ascending order
AddNodes(p) ==
    /\ workers[p].stage = "chosen"
    /\ workers' = [workers EXCEPT ![p].stage = "nodes_added",
                                  ![p].gossip =
          fold_nodes(database, workers[p].target,
                     captured_introducees(workers, p),
                     Ascending(DOMAIN database.by_public_key),
                     GossipBuilder_new)]
    /\ UNCHANGED <<database, call>>

\* lines 48-56: the second fold and build
AddPairs(p) ==
    /\ workers[p].stage = "nodes_added"
    /\ LET refs == neighbor_refs(database, Ascending(DOMAIN database.by_public_key))
           keep(ref) == keeps_neighbor(database, ref)
       IN workers' = [workers EXCEPT ![p] =
             IF \E i \in DOMAIN refs : ~known(database, refs[i][2])
             THEN [target |-> workers[p].target, stage |-> "done"] @@ key_disappeared
             ELSE [workers[p] EXCEPT
                      !.stage = "done",
                      !.outcome = "Gossip",
                      !.gossip = builder_build(
                                     fold_pairs(SelectSeq(refs, keep), @))]]
    /\ UNCHANGED <<database, call>>

InitParallel ==
    /\ \E n \in 1..ParallelNodes : StarDatabase(n)
    /\ call = Idle
    /\ workers = [p \in Callers |-> Waiting]

NextParallel ==
    \/ \E p \in Callers, target_key \in Targets(database) : Begin(p, target_key)
    \/ \E p \in Callers : AddNodes(p)
    \/ \E p \in Callers : AddPairs(p)

SpecParallel == InitParallel /\ [][NextParallel]_vars

(***************************************************************************)
(* Vocabulary of the properties: the database and the last call, read as   *)
(* sets of keys.                                                           *)
(***************************************************************************)
KnownKeys == DOMAIN database.by_public_key

Relay(k) == database.by_public_key[k].is_bootstrap

NeighborSet(k) == Range(database.by_public_key[k].neighbors)

Called == call.outcome # "idle"

Returned == call.outcome = "Gossip"

Entries == call.gossip.node_records

Pairs == call.gossip.neighbor_pairs

EntryKeys == {Entries[i].public_key : i \in DOMAIN Entries}

\* an edge's positions decoded to keys, as the tests do with node_records.get(idx)
DecodedPairs ==
    {<<Entries[Pairs[i].from + 1].public_key, Entries[Pairs[i].to + 1].public_key>> :
        i \in DOMAIN Pairs}

\* the edge rule of the reveal policy for key k and the call's target
EdgeRule(k) == k \in NeighborSet(call.target) \/ call.target \in NeighborSet(k)

\* C1: a call of produce with a target key that is no key of the database
\* returns no Gossip: it ends in TargetNotFound, and nothing of a message
\* (no entry, no edge) is produced.
C1_AbsentTargetFails ==
    (Called /\ call.target \notin KnownKeys)
        => /\ call.outcome = "TargetNotFound"
           /\ Entries = << >>
           /\ Pairs = << >>

\* a failed call on a database that holds several nodes and edges
C1_Witness ==
    /\ call.outcome = "TargetNotFound"
    /\ call.target \notin KnownKeys
    /\ Cardinality(KnownKeys) >= 3
    /\ \E k \in KnownKeys : NeighborSet(k) # {}

\* C2: the Gossip returned for a target of the database has exactly one entry
\* for each key of the database and no entry for another key.
C2_EntriesAreTheKnownKeys ==
    Returned
        => /\ EntryKeys = KnownKeys
           /\ Len(Entries) = Cardinality(KnownKeys)
           /\ \A i, j \in DOMAIN Entries :
                 Entries[i].public_key = Entries[j].public_key => i = j

\* a Gossip for a target other than root, over four nodes or more, some of
\* them without any edge to or from another node
C2_Witness ==
    /\ Returned
    /\ call.target # database.this_node
    /\ Cardinality(KnownKeys) >= 4
    /\ \E k \in KnownKeys \ {call.target, database.this_node} :
          /\ NeighborSet(k) = {}
          /\ \A j \in KnownKeys : k \notin NeighborSet(j)
    /\ Len(Entries) = Cardinality(KnownKeys)

\* C3: in the Gossip for target T the entry of every node N, root included,
\* is revealed exactly when N is a neighbor of T, or T is a neighbor of N, or
\* N is one of the keys choose_introductions returns for T.
C3_RevealPolicy ==
    Returned
        => LET introduced ==
                   Range(choose_introductions(database, call.target,
                             node_by_key(database, call.target)).keys)
           IN \A i \in DOMAIN Entries :
                 Entries[i].revealed <=>
                    \/ Entries[i].public_key \in NeighborSet(call.target)
                    \/ call.target \in NeighborSet(Entries[i].public_key)
                    \/ Entries[i].public_key \in introduced

\* one Gossip in which a node other than the target is masked, one node is
\* revealed only because the target has it as neighbor, one only because it
\* has the target as neighbor, and one only because it is introduced
C3_Witness ==
    /\ Returned
    /\ \E i \in DOMAIN Entries :
          Entries[i].public_key # call.target /\ ~Entries[i].revealed
    /\ \E i \in DOMAIN Entries :
          /\ Entries[i].revealed
          /\ Entries[i].public_key \in NeighborSet(call.target)
          /\ call.target \notin NeighborSet(Entries[i].public_key)
    /\ \E i \in DOMAIN Entries :
          /\ Entries[i].revealed
          /\ Entries[i].public_key \notin NeighborSet(call.target)
          /\ call.target \in NeighborSet(Entries[i].public_key)
    /\ \E i \in DOMAIN Entries :
          /\ Entries[i].revealed
          /\ ~EdgeRule(Entries[i].public_key)

\* C4: in every Gossip returned, both positions of every edge are positions
\* of the entry list, and the entry at the destination position is no
\* bootstrap node.
C4_NoEdgeIntoBootstrap ==
    Returned
        => \A i \in DOMAIN Pairs :
              /\ Pairs[i].from \in 0..(Len(Entries) - 1)
              /\ Pairs[i].to \in 0..(Len(Entries) - 1)
              /\ ~Relay(Entries[Pairs[i].to + 1].public_key)
              /\ ~Entries[Pairs[i].to + 1].is_bootstrap

\* a Gossip with edges, over a database in which a node has a bootstrap
\* neighbor and a bootstrap node has a standard neighbor
C4_Witness ==
    /\ Returned
    /\ Pairs # << >>
    /\ \E x \in KnownKeys : \E y \in NeighborSet(x) : Relay(y)
    /\ \E x \in KnownKeys : Relay(x) /\ \E y \in NeighborSet(x) : ~Relay(y)
    /\ \E i \in DOMAIN Pairs : Pairs[i].from # Pairs[i].to

\* C5: decoded to keys, the edges of the Gossip are exactly the pairs (X, Y)
\* with X a node of the database, Y a neighbor of X and Y no bootstrap node:
\* an edge from a bootstrap node to a standard node is among them.
C5_EdgesExact ==
    Returned
        => /\ DecodedPairs =
                {<<x, y>> \in KnownKeys \X KnownKeys :
                    y \in NeighborSet(x) /\ ~Relay(y)}
           /\ Len(Pairs) = Cardinality(DecodedPairs)

\* a Gossip that discloses an edge leaving a bootstrap node and suppresses an
\* edge entering one
C5_Witness ==
    /\ Returned
    /\ \E p \in DecodedPairs : Relay(p[1]) /\ p[1] # p[2]
    /\ \E x \in KnownKeys : \E y \in NeighborSet(x) :
          Relay(y) /\ <<x, y>> \notin DecodedPairs
    /\ Cardinality(DecodedPairs) >= 3

(***************************************************************************)
(* Vocabulary of the introduction properties, derived from the database    *)
(* alone.                                                                  *)
(***************************************************************************)
\* the target's neighbors that are no bootstrap nodes
StandardNeighborCount ==
    Cardinality({k \in NeighborSet(call.target) : ~Relay(k)})

\* root's neighbors that may be introduced to the target
Eligible ==
    {k \in NeighborSet(database.this_node) :
        k \notin NeighborSet(call.target) /\ k # call.target /\ ~Relay(k)}

NeighborCount(k) == Len(database.by_public_key[k].neighbors)

Introducees == Range(call.introducees)

\* the three preconditions of an introduction
IntroductionsDue ==
    /\ Returned
    /\ ~Relay(call.target)
    /\ call.target \in NeighborSet(database.this_node)
    /\ StandardNeighborCount < 3

\* C6: for a standard target that root has as neighbor and that has c < 3
\* standard neighbors, choose_introductions returns min(3 - c, number of
\* eligible candidates) keys, none of them twice, so the target is never
\* introduced to more peers than it needs to reach 3.
C6_IntroductionCount ==
    IntroductionsDue
        => /\ Len(call.introducees) =
                 Min(3 - StandardNeighborCount, Cardinality(Eligible))
           /\ Cardinality(Introducees) = Len(call.introducees)
           /\ StandardNeighborCount + Len(call.introducees) <= 3

\* a target with one or two standard neighbors and more eligible candidates
\* than it needs
C6_Witness ==
    /\ IntroductionsDue
    /\ StandardNeighborCount >= 1
    /\ Cardinality(Eligible) > 3 - StandardNeighborCount
    /\ Len(call.introducees) = 3 - StandardNeighborCount

\* C7: every introducee has at most as many neighbors as every eligible
\* candidate that was not chosen.
C7_LeastConnectedFirst ==
    Returned
        => \A chosen \in Introducees : \A left \in Eligible \ Introducees :
              NeighborCount(chosen) <= NeighborCount(left)

\* an introducee with fewer neighbors than a candidate left out, which root
\* has pushed before it
C7_Witness ==
    /\ IntroductionsDue
    /\ \E chosen \in Introducees : \E left \in Eligible \ Introducees :
          /\ NeighborCount(chosen) < NeighborCount(left)
          /\ \E i, j \in DOMAIN root(database).neighbors :
                /\ i < j
                /\ root(database).neighbors[i] = left
                /\ root(database).neighbors[j] = chosen

\* C8: choose_introductions returns nothing when the target is a bootstrap
\* node, or root has not the target as neighbor, or the target has 3 standard
\* neighbors or more; the Gossip then reveals exactly the nodes of the edge
\* rule.
C8_NoIntroductionUnlessDue ==
    (/\ Returned
     /\ \/ Relay(call.target)
        \/ call.target \notin NeighborSet(database.this_node)
        \/ StandardNeighborCount >= 3)
        => /\ call.introducees = << >>
           /\ \A i \in DOMAIN Entries :
                 Entries[i].revealed <=> EdgeRule(Entries[i].public_key)

\* a standard target, neighbor of root, with exactly 3 standard neighbors,
\* while root has an eligible candidate, which stays masked
C8_Witness ==
    /\ Returned
    /\ ~Relay(call.target)
    /\ call.target \in NeighborSet(database.this_node)
    /\ StandardNeighborCount = 3
    /\ Eligible # {}
    /\ \E i \in DOMAIN Entries :
          Entries[i].public_key \in Eligible /\ ~Entries[i].revealed

\* C9: bootstrap neighbors of the target do not count toward the threshold:
\* a standard target, neighbor of root, with bootstrap neighbors (3 or more
\* included) and fewer than 3 standard ones is introduced to as many
\* candidates as it lacks standard neighbors, or to all the eligible ones.
C9_BootstrapNeighborsNotCounted ==
    (/\ IntroductionsDue
     /\ \E k \in NeighborSet(call.target) : Relay(k))
        => /\ Len(call.introducees) =
                 Min(3 - Cardinality(NeighborSet(call.target))
                       + Cardinality({k \in NeighborSet(call.target) : Relay(k)}),
                     Cardinality(Eligible))
           /\ Eligible # {} => call.introducees # << >>

\* a target whose neighbors are 3 bootstrap nodes is introduced
C9_Witness ==
    /\ IntroductionsDue
    /\ Cardinality({k \in NeighborSet(call.target) : Relay(k)}) >= 3
    /\ call.introducees # << >>

\* C10: every key choose_introductions returns is a neighbor of root, is not
\* the target, is no neighbor of the target and is no bootstrap node.
C10_IntroduceesEligible ==
    Returned
        => \A k \in Introducees :
              /\ k \in NeighborSet(database.this_node)
              /\ k # call.target
              /\ k \notin NeighborSet(call.target)
              /\ ~Relay(k)

\* introductions are made while root also has a bootstrap neighbor and a
\* neighbor the target already has, both left out
C10_Witness ==
    /\ Returned
    /\ call.introducees # << >>
    /\ \E k \in NeighborSet(database.this_node) \ Introducees :
          Relay(k) /\ k # call.target /\ k \notin NeighborSet(call.target)
    /\ \E k \in NeighborSet(database.this_node) \ Introducees :
          ~Relay(k) /\ k \in NeighborSet(call.target)

(***************************************************************************)
(* Properties of the calls on databases with unresolvable neighbor keys.   *)
(***************************************************************************)
\* the neighbor keys of the database that have no NodeRecord
DanglingKeys == UNION {NeighborSet(k) : k \in KnownKeys} \ KnownKeys

\* C11: a neighbor key of the target that has no NodeRecord is counted as a
\* standard neighbor, and the call does not fail because of that key: it
\* does not end in the unimplemented!() panic.
C11_UnknownNeighborAssumedStandard ==
    (/\ Called
     /\ call.target \in KnownKeys
     /\ NeighborSet(call.target) \ KnownKeys # {})
        => call.outcome # "unimplemented"

\* C12: when a neighbor key of some node has no NodeRecord, produce for a
\* target of the database fails with DanglingNeighborReference (the panic
\* "Key magically disappeared") and returns no Gossip.
C12_DanglingFailsLoudly ==
    (/\ Called
     /\ call.target \in KnownKeys
     /\ DanglingKeys # {})
        => /\ call.outcome = "Key magically disappeared"
           /\ Entries = << >>
           /\ Pairs = << >>

\* C13: the two failures are told apart: a call ends in TargetNotFound exactly
\* when its target has no NodeRecord, a call for a known target over a
\* database with an unresolvable neighbor key ends neither in TargetNotFound
\* nor in a Gossip, and the failure of the neighbor lookups is raised only for
\* such a database.
C13_FailuresDistinguishable ==
    Called
        => /\ call.outcome = "TargetNotFound" <=> call.target \notin KnownKeys
           /\ (call.target \in KnownKeys /\ DanglingKeys # {})
                 => call.outcome \notin {"TargetNotFound", "Gossip"}
           /\ call.outcome = "Key magically disappeared"
                 => call.target \in KnownKeys /\ DanglingKeys # {}
           /\ ~Returned => Entries = << >> /\ Pairs = << >>

\* both failures on one database: here the neighbor lookup fails for a known
\* target whose own neighbors all have a NodeRecord
C13_Witness ==
    /\ call.outcome = "Key magically disappeared"
    /\ call.target \in KnownKeys
    /\ call.target # database.this_node
    /\ NeighborSet(call.target) \subseteq KnownKeys
    /\ DanglingKeys # {}

(***************************************************************************)
(* Properties of the call as a whole.                                      *)
(***************************************************************************)
\* C15: produce and choose_introductions only read the database: no step of
\* a call, returning or failing, changes it.
C15_DatabaseUnchanged == [][database' = database]_vars

\* a returned call that chose two introducees for a target root did not have
\* every edge to, and a failed call is reached too (C1_Witness)
C15_Witness ==
    /\ Returned
    /\ Len(call.introducees) = 2
    /\ Cardinality(Eligible) >= 3

\* the position of key k in root's neighbor list
RootPosition(k) ==
    CHOOSE i \in DOMAIN database.by_public_key[database.this_node].neighbors :
        database.by_public_key[database.this_node].neighbors[i] = k

C19_TargetOwnEntry ==
    Returned
        => /\ call.target \notin Introducees
           /\ \A i \in DOMAIN Entries :
                 Entries[i].public_key = call.target
                     => (Entries[i].revealed
                            <=> call.target \in NeighborSet(call.target))

\* introductions are made for a target that is a neighbor of root (a
\* candidate but for line 77) and does not list itself: its entry is masked
C19_Witness ==
    /\ IntroductionsDue
    /\ Introducees # {}
    /\ call.target \notin NeighborSet(call.target)
    /\ \E i \in DOMAIN Entries :
          Entries[i].public_key = call.target /\ ~Entries[i].revealed

\* C20: MINIMUM_NEIGHBORS - target_standard_neighbors is evaluated only under
\* the condition of line 73, where the count c is below MINIMUM_NEIGHBORS: the
\* subtraction never goes below zero, the take count is between 1 and
\* MINIMUM_NEIGHBORS, and c plus the number of introducees is at most
\* MINIMUM_NEIGHBORS whenever there is an introducee.
C20_TakeCountInRange ==
    (Called /\ call.target \in KnownKeys)
        => LET target == node_by_key(database, call.target)
               c == target_standard_neighbors(database, target)
           IN /\ call.outcome # "attempt to subtract with overflow"
              /\ wants_introductions(database, call.target, target)
                    => /\ c < MINIMUM_NEIGHBORS
                       /\ MINIMUM_NEIGHBORS - c \in 1..MINIMUM_NEIGHBORS
              /\ call.introducees # << >>
                    => /\ wants_introductions(database, call.target, target)
                       /\ c + Len(call.introducees) <= MINIMUM_NEIGHBORS

\* the take count cuts the candidates: two standard neighbors, one
\* introducee, another candidate left out
C20_Witness ==
    /\ IntroductionsDue
    /\ StandardNeighborCount = 2
    /\ Len(call.introducees) = 1
    /\ Cardinality(Eligible) >= 2

(***************************************************************************)
(* The calls produce makes on the GossipBuilder.                           *)
(***************************************************************************)
BuilderCalls == call.gossip.calls

CallsOf(op) == {i \in DOMAIN BuilderCalls : BuilderCalls[i][1] = op}

\* C17: in a call that returns, every key of the database is added to the
\* builder exactly once, every node is added before the first edge, every
\* edge names two keys added before it, and build is called once, after the
\* last edge.
C17_BuilderCallOrder ==
    Returned
        => LET nodes == CallsOf("node")
               pairs == CallsOf("neighbor_pair")
           IN /\ \A k \in KnownKeys :
                    \E i \in nodes :
                       /\ BuilderCalls[i][2] = k
                       /\ \A j \in nodes : BuilderCalls[j][2] = k => j = i
              /\ \A i \in nodes : BuilderCalls[i][2] \in KnownKeys
              /\ \A i \in nodes, j \in pairs : i < j
              /\ \A j \in pairs :
                    /\ \E i \in nodes : i < j /\ BuilderCalls[i][2] = BuilderCalls[j][2]
                    /\ \E i \in nodes : i < j /\ BuilderCalls[i][2] = BuilderCalls[j][3]
              /\ CallsOf("build") = {Len(BuilderCalls)}
              /\ Len(BuilderCalls) = Cardinality(nodes) + Cardinality(pairs) + 1

\* a call with several nodes and edges, one of them from a node to itself,
\* whose keys were enumerated in descending order
C17_Witness ==
    /\ Returned
    /\ Cardinality(CallsOf("node")) >= 3
    /\ Cardinality(CallsOf("neighbor_pair")) >= 2
    /\ \E j \in CallsOf("neighbor_pair") : BuilderCalls[j][2] = BuilderCalls[j][3]
    /\ BuilderCalls[1][2] > BuilderCalls[2][2]

(***************************************************************************)
(* Two calls over one database.                                            *)
(***************************************************************************)
\* what a call's outcome is up to the order of entries and edges: the
\* outcome, the entry keys, the keys revealed, the introducees and the edges
\* by key
StructureOf(result) ==
    LET records == result.gossip.node_records
        pairs == result.gossip.neighbor_pairs
    IN [outcome |-> result.outcome,
        entry_keys |-> {records[i].public_key : i \in DOMAIN records},
        entry_count |-> Len(records),
        revealed |-> {records[i].public_key :
                         i \in {j \in DOMAIN records : records[j].revealed}},
        introducees |-> Range(result.introducees),
        edges |-> {<<records[pairs[i].from + 1].public_key,
                     records[pairs[i].to + 1].public_key>> : i \in DOMAIN pairs}]

ResultOf(p) ==
    [outcome |-> workers[p].outcome, introducees |-> workers[p].introducees,
     gossip |-> workers[p].gossip]

\* C18: calls for different targets over one unchanged database may
\* interleave in any way: what each call ends in, Gossip or failure, is what
\* produce ends in for its target when it runs alone.
C18_InterleavedAsAlone ==
    \A p \in Callers :
        workers[p].stage = "done"
            => ResultOf(p) = produce(database, workers[p].target,
                                     Ascending(DOMAIN database.by_public_key),
                                     Ascending(DOMAIN database.by_public_key))

\* one call has returned a Gossip with an introducee; it chose its
\* introducees while the call for another target, with other introducees,
\* was between its two folds
C18_Witness ==
    \E p, q \in Callers :
        /\ workers[p].stage = "done"
        /\ workers[p].outcome = "Gossip"
        /\ workers[p].introducees # << >>
        /\ workers[q].stage = "nodes_added"
        /\ workers[q].target # workers[p].target
        /\ workers[q].introducees # workers[p].introducees

(***************************************************************************)
(* What the introductions reveal.                                          *)
(***************************************************************************)
\* the keys whose entries are revealed though no edge joins them and the
\* target: the addresses the introductions reveal
NewlyRevealed ==
    {Entries[i].public_key :
        i \in {j \in DOMAIN Entries :
                  Entries[j].revealed /\ ~EdgeRule(Entries[j].public_key)}}

\* C21 as stated: no edge joins an introducee and the target in either
\* direction, so the introductions reveal as many addresses as there are
\* introducees.
C21_IntroduceesHaveNoEdge ==
    Returned
        => /\ \A k \in Introducees :
                 k \notin NeighborSet(call.target) /\ call.target \notin NeighborSet(k)
           /\ Cardinality(NewlyRevealed) = Len(call.introducees)

\* C21, amended: an introducee is no neighbor of the target, but may have the
\* target as its neighbor (line 76 tests the target's list only); the
\* addresses the introductions reveal are those of the introducees that do
\* not have the target as neighbor, at most as many as there are introducees.
C21_IntroduceesNotTargetsNeighbors ==
    Returned
        => /\ \A k \in Introducees : k \notin NeighborSet(call.target)
           /\ NewlyRevealed = {k \in Introducees : call.target \notin NeighborSet(k)}
           /\ Cardinality(NewlyRevealed) <= Len(call.introducees)

\* two introducees, one of which, a node other than root, has the target as
\* its neighbor: one address is revealed by the introductions, the other by
\* the edge
C21_Witness ==
    /\ Returned
    /\ Len(call.introducees) = 2
    /\ Cardinality(NewlyRevealed) = 1
    /\ \E k \in Introducees \ {database.this_node} :
          call.target \in NeighborSet(k)

=============================================================================
